---- MODULE Spec2Model ----
(***************************************************************************)
(* SauceDemo intermediate Cypress tests: the login custom command          *)
(* (commands.js), the three suites of intermediate-test.cy.js, the         *)
(* runner that drains their command queue, and the application under test  *)
(* as far as the commands touch it.                                        *)
(***************************************************************************)
EXTENDS Integers, Sequences, FiniteSets, TLC

VARIABLES
    testIsolation,  \* runner configuration: does the runner wipe the browser before each test
    selected,       \* the scenarios this run executes (all of them, or those marked .only)
    cur,            \* the scenario being executed, 0 before the first
    phase,          \* "idle" | "hook" | "body" | "login" (the login command on its own)
    queue,          \* the runner's command queue: <<[cmd, src]>>
    log,            \* the commands executed so far in the current scenario, in order
    call,           \* the arguments of the latest call of the login command
    outcome,        \* scenario -> "pending" | "passed" | "failed" | "skipped"
    failure,        \* scenario -> "none" | "notfound" | "assertion"
    browser,        \* the browser: page, form fields, cookies, local storage
    failedIn,       \* scenario -> "none" | "hook" | "body": where its failing command ran
    loginCalls,     \* the calls of the login command in this run: <<[by, in, username]>>
    absent          \* the selectors the application serves no element for

vars == <<testIsolation, selected, cur, phase, queue, log, call, outcome, failure, browser,
          failedIn, loginCalls, absent>>

----------------------------------------------------------------------------
(* Literals of the source *)

BaseUrl == "https://www.saucedemo.com/"

\* the array in another order
usersReordered == <<"locked_out_user", "standard_user", "problem_user">>

users == <<"standard_user", "locked_out_user", "problem_user">>

LockedUser == "locked_out_user"

StandardUser == "standard_user"

Password == "secret_sauce"

Backpack == "sauce-labs-backpack"

ExpectedProducts == 6

UserNameField == "#user-name"

PasswordField == "#password"

LoginButton == "#login-button"

ErrorBanner == "h3[data-test=\"error\"]"

AddBackpack == "#add-to-cart-sauce-labs-backpack"

RemoveBackpack == "#remove-sauce-labs-backpack"

CartLink == ".shopping_cart_link"

----------------------------------------------------------------------------
(* Commands: one record per cy statement of the source *)

Cmd(op, sel, sub, text, text2, n) ==
    [op |-> op, sel |-> sel, sub |-> sub, text |-> text, text2 |-> text2, n |-> n]

Visit(url) == Cmd("visit", "", "", url, "", 0)

ClearAllCookies == Cmd("clearAllCookies", "", "", "", "", 0)

ClearAllLocalStorage == Cmd("clearAllLocalStorage", "", "", "", "", 0)

Type(sel, text) == Cmd("type", sel, "", text, "", 0)

Click(sel) == Cmd("click", sel, "", "", "", 0)

Login(username, password) == Cmd("login", "", "", username, password, 0)

ShouldBeVisibleAndContain(sel, text) == Cmd("visibleContain", sel, "", text, "", 0)

UrlShouldInclude(text) == Cmd("urlInclude", "", "", text, "", 0)

FindShouldHaveLength(sel, sub, n) == Cmd("findHaveLength", sel, sub, "", "", n)

ShouldHaveText(sel, text) == Cmd("haveText", sel, "", text, "", 0)

ShouldHaveLength(sel, n) == Cmd("haveLength", sel, "", "", "", n)

ShouldNotExist(sel) == Cmd("notExist", sel, "", "", "", 0)

AssertionOps == {"visibleContain", "urlInclude", "findHaveLength", "haveText",
                 "haveLength", "notExist"}

IsAssertion(c) == c.op \in AssertionOps

----------------------------------------------------------------------------
(* The login custom command: the four statements of its callback *)

\* the two fields typed in the other order
LoginCommandsSwapped(username, password) ==
    << Visit(BaseUrl),
       Type(PasswordField, password),
       Type(UserNameField, username),
       Click(LoginButton) >>

\* the command checks its own outcome
LoginCommandsAsserting(username, password) ==
    << Visit(BaseUrl),
       Type(UserNameField, username),
       Type(PasswordField, password),
       Click(LoginButton),
       UrlShouldInclude("inventory") >>

\* the command leaves the navigation to its caller
LoginCommandsNoVisit(username, password) ==
    << Type(UserNameField, username),
       Type(PasswordField, password),
       Click(LoginButton) >>

LoginCommands(username, password) ==
    << Visit(BaseUrl),
       Type(UserNameField, username),
       Type(PasswordField, password),
       Click(LoginButton) >>

----------------------------------------------------------------------------
(* Scenario definitions: three describe blocks, eight it blocks *)

Suites == <<"login", "product", "cart">>

\* users.forEach: one it block per element of users
LoginScenarios == [i \in 1..Len(users) |-> [suite |-> "login", user |-> users[i], test |-> i]]

ProductScenarios ==
    << [suite |-> "product", user |-> StandardUser, test |-> 1],
       [suite |-> "product", user |-> StandardUser, test |-> 2] >>

CartScenarios ==
    << [suite |-> "cart", user |-> StandardUser, test |-> 1],
       [suite |-> "cart", user |-> StandardUser, test |-> 2],
       [suite |-> "cart", user |-> StandardUser, test |-> 3] >>

Scenarios == LoginScenarios \o ProductScenarios \o CartScenarios

ScenarioIds == 1..Len(Scenarios)

SuiteOf(s) == Scenarios[s].suite

\* the Product hook without its two clearing commands
HookCommandsNoClear(suite) ==
    CASE suite = "login" ->
           << Visit(BaseUrl), ClearAllCookies, ClearAllLocalStorage >>
      [] suite = "product" ->
           << Visit(BaseUrl), Login(StandardUser, Password) >>
      [] suite = "cart" ->
           << Visit(BaseUrl), Login(StandardUser, Password),
              Click(AddBackpack), Click(CartLink) >>

\* the Cart hook without the add-to-cart click
HookCommandsNoAdd(suite) ==
    CASE suite = "login" ->
           << Visit(BaseUrl), ClearAllCookies, ClearAllLocalStorage >>
      [] suite = "product" ->
           << Visit(BaseUrl), ClearAllCookies, ClearAllLocalStorage,
              Login(StandardUser, Password) >>
      [] suite = "cart" ->
           << Visit(BaseUrl), Login(StandardUser, Password), Click(CartLink) >>

\* the Login suite logs in from its hook as the other two suites do
HookCommandsLoginInHook(suite) ==
    CASE suite = "login" ->
           << Visit(BaseUrl), ClearAllCookies, ClearAllLocalStorage,
              Login(StandardUser, Password) >>
      [] suite = "product" ->
           << Visit(BaseUrl), ClearAllCookies, ClearAllLocalStorage,
              Login(StandardUser, Password) >>
      [] suite = "cart" ->
           << Visit(BaseUrl), Login(StandardUser, Password),
              Click(AddBackpack), Click(CartLink) >>

\* the Cart hook without opening the cart view
HookCommandsNoOpenCart(suite) ==
    CASE suite = "login" ->
           << Visit(BaseUrl), ClearAllCookies, ClearAllLocalStorage >>
      [] suite = "product" ->
           << Visit(BaseUrl), ClearAllCookies, ClearAllLocalStorage,
              Login(StandardUser, Password) >>
      [] suite = "cart" ->
           << Visit(BaseUrl), Login(StandardUser, Password), Click(AddBackpack) >>

\* the beforeEach callback of each describe block
HookCommands(suite) ==
    CASE suite = "login" ->
           << Visit(BaseUrl), ClearAllCookies, ClearAllLocalStorage >>
      [] suite = "product" ->
           << Visit(BaseUrl), ClearAllCookies, ClearAllLocalStorage,
              Login(StandardUser, Password) >>
      [] suite = "cart" ->
           << Visit(BaseUrl), Login(StandardUser, Password),
              Click(AddBackpack), Click(CartLink) >>

\* no branch: every user is expected on the inventory page
LoginTestBodyNoBranch(user) ==
    << Login(user, Password), UrlShouldInclude("inventory") >>

\* the branch taken for the wrong user
LoginTestBodyWrongBranch(user) ==
    << Login(user, Password) >> \o
    ( IF user = StandardUser
        THEN << ShouldBeVisibleAndContain(ErrorBanner, "locked out") >>
        ELSE << UrlShouldInclude("inventory") >> )

\* the login command called twice in the generated test
LoginTestBodyLoginTwice(user) ==
    << Login(user, Password), Login(user, Password) >> \o
    ( IF user = LockedUser
        THEN << ShouldBeVisibleAndContain(ErrorBanner, "locked out") >>
        ELSE << UrlShouldInclude("inventory") >> )

\* the body of the it block generated for one user
LoginTestBody(user) ==
    << Login(user, Password) >> \o
    ( IF user = LockedUser
        THEN << ShouldBeVisibleAndContain(ErrorBanner, "locked out") >>
        ELSE << UrlShouldInclude("inventory") >> )

\* the badge test clicks the remove control
ProductTestBodyWrongControl(test) ==
    CASE test = 1 ->
           << FindShouldHaveLength(".inventory_list", ".inventory_item", ExpectedProducts) >>
      [] test = 2 ->
           << Click(RemoveBackpack), ShouldHaveText(CartLink, "1") >>

\* the listing test counts the items of the whole page
ProductTestBodyNoFind(test) ==
    CASE test = 1 ->
           << ShouldHaveLength(".inventory_item", ExpectedProducts) >>
      [] test = 2 ->
           << Click(AddBackpack), ShouldHaveText(CartLink, "1") >>

ProductTestBody(test) ==
    CASE test = 1 ->
           << FindShouldHaveLength(".inventory_list", ".inventory_item", ExpectedProducts) >>
      [] test = 2 ->
           << Click(AddBackpack), ShouldHaveText(CartLink, "1") >>

\* the checkout test clicks the cart link
CartTestBodyWrongClick(test) ==
    CASE test = 1 -> << ShouldHaveLength(".cart_item", 1) >>
      [] test = 2 -> << Click(RemoveBackpack), ShouldNotExist(".inventory_item_name") >>
      [] test = 3 -> << Click(CartLink), UrlShouldInclude("checkout-step-one") >>

CartTestBody(test) ==
    CASE test = 1 -> << ShouldHaveLength(".cart_item", 1) >>
      [] test = 2 -> << Click(RemoveBackpack), ShouldNotExist(".inventory_item_name") >>
      [] test = 3 -> << Click("#checkout"), UrlShouldInclude("checkout-step-one") >>

BodyCommands(s) ==
    CASE SuiteOf(s) = "login" -> LoginTestBody(Scenarios[s].user)
      [] SuiteOf(s) = "product" -> ProductTestBody(Scenarios[s].test)
      [] SuiteOf(s) = "cart" -> CartTestBody(Scenarios[s].test)

----------------------------------------------------------------------------
(* The application under test, as far as the commands touch it *)

Products == { Backpack, "sauce-labs-bike-light", "sauce-labs-bolt-t-shirt",
              "sauce-labs-fleece-jacket", "sauce-labs-onesie",
              "test.allthethings()-t-shirt-(red)" }

Accounts == { "standard_user", "locked_out_user", "problem_user" }

\* texts and locations are sequences of fragments; containment is on fragments
Contains(text, part) == \E i \in 1..Len(text) : text[i] = part

ErrorText(error) ==
    CASE error = "locked" ->
           << "Epic sadface: Sorry, this user has been ", "locked out", "." >>
      [] error = "nomatch" ->
           << "Epic sadface: Username and password ", "do not match", " any user in this service" >>
      [] error = "required" ->
           << "Epic sadface: ", "Username", " is required" >>
      [] OTHER -> << >>

Url(page) ==
    CASE page = "login" -> << BaseUrl >>
      [] page = "inventory" -> << BaseUrl, "inventory", ".html" >>
      [] page = "cart" -> << BaseUrl, "cart", ".html" >>
      [] page = "checkout-step-one" -> << BaseUrl, "checkout-step-one", ".html" >>
      [] OTHER -> << "about:blank" >>

FreshBrowser ==
    [ page |-> "blank", userField |-> << >>, passField |-> << >>, error |-> "none",
      cookies |-> {}, storage |-> {} ]

\* the cart is kept in local storage, the session in a cookie
Cart(b) == { e.item : e \in b.storage }

LoggedIn(b) == b.cookies # {}

\* number of elements the page holds for a selector when the application serves it
PageCount(b, sel) ==
    CASE sel \in {UserNameField, PasswordField, LoginButton} ->
           IF b.page = "login" THEN 1 ELSE 0
      [] sel = ErrorBanner ->
           IF b.page = "login" /\ b.error # "none" THEN 1 ELSE 0
      [] sel = ".inventory_list" ->
           IF b.page = "inventory" THEN 1 ELSE 0
      [] sel = ".inventory_item" ->
           IF b.page = "inventory" THEN Cardinality(Products) ELSE 0
      [] sel = ".inventory_item_name" ->
           IF b.page = "inventory" THEN Cardinality(Products)
           ELSE IF b.page = "cart" THEN Cardinality(Cart(b)) ELSE 0
      [] sel = AddBackpack ->
           IF b.page = "inventory" /\ Backpack \notin Cart(b) THEN 1 ELSE 0
      [] sel = RemoveBackpack ->
           IF b.page \in {"inventory", "cart"} /\ Backpack \in Cart(b) THEN 1 ELSE 0
      [] sel = CartLink ->
           IF b.page \in {"inventory", "cart", "checkout-step-one"} THEN 1 ELSE 0
      [] sel = ".cart_item" ->
           IF b.page = "cart" THEN Cardinality(Cart(b)) ELSE 0
      [] sel = "#checkout" ->
           IF b.page = "cart" THEN 1 ELSE 0
      [] OTHER -> 0

\* number of elements of the current page that match a selector
Count(b, sel) == IF sel \in absent THEN 0 ELSE PageCount(b, sel)

\* elements matching sub inside the elements matching sel
CountWithin(b, sel, sub) ==
    IF sel = ".inventory_list" /\ sub = ".inventory_item" /\ Count(b, sel) > 0
      THEN Count(b, sub) ELSE 0

\* the cart link's text is the badge: nothing for an empty cart, else the count
BadgeText(b) == IF Cart(b) = {} THEN "" ELSE ToString(Cardinality(Cart(b)))

Text(b, sel) ==
    CASE sel = ErrorBanner -> ErrorText(b.error)
      [] sel = CartLink -> << BadgeText(b) >>
      [] OTHER -> << >>

LoadLoginPage(b) ==
    [b EXCEPT !.page = "login", !.userField = << >>, !.passField = << >>, !.error = "none"]

TypeInto(b, sel, text) ==
    CASE sel = UserNameField -> [b EXCEPT !.userField = Append(@, text)]
      [] sel = PasswordField -> [b EXCEPT !.passField = Append(@, text)]
      [] OTHER -> b

SubmitLogin(b, by) ==
    IF b.userField = << >> \/ b.passField = << >>
      THEN [b EXCEPT !.error = "required"]
    ELSE IF /\ Len(b.userField) = 1 /\ b.userField[1] \in Accounts
            /\ b.passField = << Password >>
      THEN IF b.userField[1] = LockedUser
             THEN [b EXCEPT !.error = "locked"]
             ELSE [b EXCEPT !.page = "inventory", !.error = "none",
                            !.cookies = { [name |-> "session-username",
                                           value |-> b.userField[1], by |-> by] }]
    ELSE [b EXCEPT !.error = "nomatch"]

ClickOn(b, sel, by) ==
    CASE sel = LoginButton -> SubmitLogin(b, by)
      [] sel = AddBackpack ->
           [b EXCEPT !.storage = @ \cup { [key |-> "cart-contents", item |-> Backpack, by |-> by] }]
      [] sel = RemoveBackpack ->
           [b EXCEPT !.storage = { e \in @ : e.item # Backpack }]
      [] sel = CartLink -> [b EXCEPT !.page = "cart"]
      [] sel = "#checkout" -> [b EXCEPT !.page = "checkout-step-one"]
      [] OTHER -> b

----------------------------------------------------------------------------
(* The runner: one command against the browser *)

Ok(b) == [err |-> "none", b |-> b]

Fail(kind, b) == [err |-> kind, b |-> b]

\* by: the scenario on whose behalf the command runs (tags what it writes)
Step(c, b, by) ==
    CASE c.op = "visit" -> Ok(LoadLoginPage(b))
      [] c.op = "clearAllCookies" -> Ok([b EXCEPT !.cookies = {}])
      [] c.op = "clearAllLocalStorage" -> Ok([b EXCEPT !.storage = {}])
      [] c.op = "type" ->
           IF Count(b, c.sel) = 0 THEN Fail("notfound", b)
           ELSE Ok(TypeInto(b, c.sel, c.text))
      [] c.op = "click" ->
           IF Count(b, c.sel) = 0 THEN Fail("notfound", b)
           ELSE Ok(ClickOn(b, c.sel, by))
      [] c.op = "visibleContain" ->
           IF Count(b, c.sel) = 0 THEN Fail("notfound", b)
           ELSE IF Contains(Text(b, c.sel), c.text) THEN Ok(b)
           ELSE Fail("assertion", b)
      [] c.op = "urlInclude" ->
           IF Contains(Url(b.page), c.text) THEN Ok(b) ELSE Fail("assertion", b)
      [] c.op = "findHaveLength" ->
           IF Count(b, c.sel) = 0 THEN Fail("notfound", b)
           ELSE IF CountWithin(b, c.sel, c.sub) = c.n THEN Ok(b)
           ELSE Fail("assertion", b)
      [] c.op = "haveText" ->
           IF Count(b, c.sel) = 0 THEN Fail("notfound", b)
           ELSE IF Text(b, c.sel) = << c.text >> THEN Ok(b)
           ELSE Fail("assertion", b)
      [] c.op = "haveLength" ->
           IF Count(b, c.sel) = 0 THEN Fail("notfound", b)
           ELSE IF Count(b, c.sel) = c.n THEN Ok(b)
           ELSE Fail("assertion", b)
      [] c.op = "notExist" ->
           IF Count(b, c.sel) = 0 THEN Ok(b) ELSE Fail("assertion", b)

Tagged(cmds, src) == [i \in 1..Len(cmds) |-> [cmd |-> cmds[i], src |-> src]]

NoCall == [username |-> "", password |-> ""]

\* scenarios run in file order: s is next when every selected one before it has ended
IsNext(s) ==
    /\ s \in selected
    /\ outcome[s] = "pending"
    /\ \A t \in selected : t < s => outcome[t] # "pending"

----------------------------------------------------------------------------
(* The runner: one action per step of a run *)

\* a test starts: the runner isolates it if so configured, then runs beforeEach
StartScenario(s) ==
    /\ phase = "idle"
    /\ IsNext(s)
    /\ cur' = s
    /\ phase' = "hook"
    /\ browser' = IF testIsolation THEN FreshBrowser ELSE browser
    /\ queue' = Tagged(HookCommands(SuiteOf(s)), "hook")
    /\ log' = << >>
    /\ call' = NoCall
    /\ UNCHANGED <<failedIn, loginCalls, absent, testIsolation, selected, outcome, failure>>

\* the callback's statements queued behind the commands already waiting
CallLoginAtEnd ==
    /\ queue # << >>
    /\ Head(queue).cmd.op = "login"
    /\ queue' = Tail(queue) \o
                  Tagged(LoginCommands(Head(queue).cmd.text, Head(queue).cmd.text2), "login")
    /\ call' = [username |-> Head(queue).cmd.text, password |-> Head(queue).cmd.text2]
    /\ loginCalls' = Append(loginCalls, [by |-> cur, in |-> phase,
                                         username |-> Head(queue).cmd.text])
    /\ UNCHANGED <<failedIn, absent, testIsolation, selected, cur, phase, log, outcome, failure, browser>>

\* the login command is dequeued: its callback queues its statements ahead of the rest
CallLogin ==
    /\ queue # << >>
    /\ Head(queue).cmd.op = "login"
    /\ queue' = Tagged(LoginCommands(Head(queue).cmd.text, Head(queue).cmd.text2), "login")
                  \o Tail(queue)
    /\ call' = [username |-> Head(queue).cmd.text, password |-> Head(queue).cmd.text2]
    /\ loginCalls' = Append(loginCalls, [by |-> cur, in |-> phase,
                                         username |-> Head(queue).cmd.text])
    /\ UNCHANGED <<failedIn, absent, testIsolation, selected, cur, phase, log, outcome, failure, browser>>

ExecOk ==
    /\ queue # << >>
    /\ Head(queue).cmd.op # "login"
    /\ LET r == Step(Head(queue).cmd, browser, cur) IN
         /\ r.err = "none"
         /\ browser' = r.b
    /\ queue' = Tail(queue)
    /\ log' = Append(log, Head(queue))
    /\ UNCHANGED <<failedIn, loginCalls, absent, testIsolation, selected, cur, phase, call, outcome, failure>>

\* a command fails: the test fails; in a beforeEach hook the rest of the suite is skipped
ExecFail ==
    /\ phase \in {"hook", "body"}
    /\ queue # << >>
    /\ Head(queue).cmd.op # "login"
    /\ LET r == Step(Head(queue).cmd, browser, cur) IN
         /\ r.err # "none"
         /\ failure' = [failure EXCEPT ![cur] = r.err]
    /\ failedIn' = [failedIn EXCEPT ![cur] = phase]
    /\ outcome' = [s \in ScenarioIds |->
                     IF s = cur THEN "failed"
                     ELSE IF /\ phase = "hook" /\ s \in selected /\ s > cur
                             /\ SuiteOf(s) = SuiteOf(cur) /\ outcome[s] = "pending"
                       THEN "skipped"
                     ELSE outcome[s]]
    /\ queue' = << >>
    /\ phase' = "idle"
    /\ UNCHANGED <<loginCalls, absent, testIsolation, selected, cur, log, call, browser>>

\* the hook's commands are drained: the it callback runs
StartBody ==
    /\ phase = "hook"
    /\ queue = << >>
    /\ phase' = "body"
    /\ queue' = Tagged(BodyCommands(cur), "body")
    /\ UNCHANGED <<failedIn, loginCalls, absent, testIsolation, selected, cur, log, call, outcome, failure, browser>>

EndScenario ==
    /\ phase = "body"
    /\ queue = << >>
    /\ phase' = "idle"
    /\ outcome' = [outcome EXCEPT ![cur] = "passed"]
    /\ UNCHANGED <<failedIn, loginCalls, absent, testIsolation, selected, cur, queue, log, call, failure, browser>>

Init ==
    /\ testIsolation \in BOOLEAN
    /\ selected \in (SUBSET ScenarioIds) \ {{}}
    /\ cur = 0
    /\ phase = "idle"
    /\ queue = << >>
    /\ log = << >>
    /\ call = NoCall
    /\ outcome = [s \in ScenarioIds |-> "pending"]
    /\ failure = [s \in ScenarioIds |-> "none"]
    /\ failedIn = [s \in ScenarioIds |-> "none"]
    /\ browser = FreshBrowser
    /\ loginCalls = << >>
    /\ absent = {}

Next ==
    \/ \E s \in ScenarioIds : StartScenario(s)
    \/ CallLogin
    \/ ExecOk
    \/ ExecFail
    \/ StartBody
    \/ EndScenario

Spec == Init /\ [][Next]_vars

\* the same runs against an application that may serve no element for one of
\* the selectors the login command addresses
LoginSelectors == {UserNameField, PasswordField, LoginButton}

InitAbsent ==
    /\ testIsolation \in BOOLEAN
    /\ selected \in (SUBSET ScenarioIds) \ {{}}
    /\ cur = 0
    /\ phase = "idle"
    /\ queue = << >>
    /\ log = << >>
    /\ call = NoCall
    /\ outcome = [s \in ScenarioIds |-> "pending"]
    /\ failure = [s \in ScenarioIds |-> "none"]
    /\ failedIn = [s \in ScenarioIds |-> "none"]
    /\ browser = FreshBrowser
    /\ loginCalls = << >>
    /\ absent \in { {} } \cup { {sel} : sel \in LoginSelectors }

SpecAbsent == InitAbsent /\ [][Next]_vars

----------------------------------------------------------------------------
(* The login command on its own: any credentials, from any browser state   *)
(* a caller can be in when it calls the command                            *)

LoginUsernames == Accounts \cup {"unknown_user"}

LoginPasswords == {Password, "wrong_sauce"}

LeftoverCookies == { {}, { [name |-> "session-username", value |-> StandardUser, by |-> 4] } }

LeftoverStorage == { {}, { [key |-> "cart-contents", item |-> Backpack, by |-> 5] } }

LoginStartBrowsers ==
    { [LoadLoginPage(FreshBrowser) EXCEPT !.cookies = c, !.storage = st] :
        c \in LeftoverCookies, st \in LeftoverStorage }

LoginInit ==
    /\ testIsolation = FALSE
    /\ selected = {}
    /\ cur = 0
    /\ phase = "login"
    /\ \E u \in LoginUsernames, p \in LoginPasswords :
         queue = Tagged(<< Login(u, p) >>, "call")
    /\ log = << >>
    /\ call = NoCall
    /\ outcome = [s \in ScenarioIds |-> "pending"]
    /\ failure = [s \in ScenarioIds |-> "none"]
    /\ failedIn = [s \in ScenarioIds |-> "none"]
    /\ browser \in LoginStartBrowsers
    /\ loginCalls = << >>
    /\ absent = {}

LoginNext == CallLogin \/ ExecOk

SpecLogin == LoginInit /\ [][LoginNext]_vars

Cmds(entries) == [i \in 1..Len(entries) |-> entries[i].cmd]

LoginCalled == phase = "login" /\ call # NoCall

LoginDone == LoginCalled /\ queue = << >>

\* C1: once the login command is called with a username and a password, the
\* commands it has executed followed by those it still has queued are always
\* the same four, in this order: visit the application root, type the username
\* into #user-name, type the password into #password, click #login-button;
\* so they run in that order, none skipped, repeated or reordered.
C1_LoginFourCommandsInOrder ==
    LoginCalled =>
        /\ Cmds(log \o queue) =
             << [op |-> "visit", sel |-> "", sub |-> "", text |-> "https://www.saucedemo.com/",
                 text2 |-> "", n |-> 0],
                [op |-> "type", sel |-> "#user-name", sub |-> "", text |-> call.username,
                 text2 |-> "", n |-> 0],
                [op |-> "type", sel |-> "#password", sub |-> "", text |-> call.password,
                 text2 |-> "", n |-> 0],
                [op |-> "click", sel |-> "#login-button", sub |-> "", text |-> "",
                 text2 |-> "", n |-> 0] >>
        /\ \A i \in 1..Len(log \o queue) : (log \o queue)[i].src = "login"

C1_Witness ==
    /\ LoginDone
    /\ Len(log) = 4
    /\ call = [username |-> "unknown_user", password |-> "wrong_sauce"]

Shape(entries) == [i \in 1..Len(entries) |-> << entries[i].cmd.op, entries[i].cmd.sel >>]

\* C2: the login command judges nothing: none of its commands is an assertion,
\* none of them fails whatever the account the credentials belong to (admitted,
\* locked or none), and the operations and selectors it has run when it ends
\* are the same whether the application admitted or refused the credentials.
C2_LoginMakesNoJudgment ==
    phase = "login" =>
        /\ \A i \in 1..Len(log) : ~IsAssertion(log[i].cmd)
        /\ \A i \in 1..Len(queue) : ~IsAssertion(queue[i].cmd)
        /\ (queue # << >> /\ Head(queue).cmd.op # "login")
             => Step(Head(queue).cmd, browser, cur).err = "none"
        /\ LoginDone /\ browser.page \in {"login", "inventory"}
             => Shape(log) = << <<"visit", "">>, <<"type", "#user-name">>,
                                <<"type", "#password">>, <<"click", "#login-button">> >>

\* refused credentials of no account: the command still ran to its end
C2_Witness ==
    /\ LoginDone
    /\ browser.page = "login"
    /\ browser.error = "nomatch"
    /\ call.username = "unknown_user"

----------------------------------------------------------------------------
(* Properties of a run *)

InBody == phase = "body"

InTest(suite, test) == InBody /\ SuiteOf(cur) = suite /\ Scenarios[cur].test = test

IsAssertionEntry(e) == IsAssertion(e.cmd)

IsBodyEntry(e) == e.src = "body"

Clicked(sel, src) ==
    \E i \in 1..Len(log) : log[i].src = src /\ log[i].cmd.op = "click" /\ log[i].cmd.sel = sel

BodyClicked == \E i \in 1..Len(log) : log[i].src = "body" /\ log[i].cmd.op = "click"

SeededUsers == << "standard_user", "locked_out_user", "problem_user" >>

\* C3: in the login suite no scenario fails or is skipped, and once a
\* scenario's login has clicked the login button with one of the three seeded
\* usernames and the password "secret_sauce", the locked account shows one
\* visible error element whose text contains "locked out", and each of the
\* other two is at a location containing "inventory".
C3_SeededLoginsPass ==
    /\ \A s \in 1..3 : outcome[s] \in {"pending", "passed"}
    /\ (InBody /\ SuiteOf(cur) = "login" /\ Clicked("#login-button", "login")) =>
         /\ call.password = "secret_sauce"
         /\ call.username \in {"standard_user", "locked_out_user", "problem_user"}
         /\ call.username = "locked_out_user" =>
              /\ Count(browser, "h3[data-test=\"error\"]") = 1
              /\ Contains(Text(browser, "h3[data-test=\"error\"]"), "locked out")
         /\ call.username # "locked_out_user" =>
              Contains(Url(browser.page), "inventory")

\* all three login scenarios have passed, the last one on the inventory page
C3_Witness ==
    /\ cur = 3 /\ phase = "idle"
    /\ outcome[1] = "passed" /\ outcome[2] = "passed" /\ outcome[3] = "passed"
    /\ browser.page = "inventory"

\* C4: the login suite has one scenario per element of the three-element
\* username list; the body of the scenario of the i-th username calls the
\* login command with that username and "secret_sauce", and the assertions it
\* issues are exactly one: the error indicator (visible, contains "locked
\* out") if and only if the username is locked_out_user, and otherwise the
\* location containing "inventory".
C4_OneScenarioPerUserOneBranch ==
    /\ { s \in ScenarioIds : SuiteOf(s) = "login" } = 1..3
    /\ (InBody /\ cur \in 1..3) =>
         LET asserts == SelectSeq(log \o queue, IsAssertionEntry)
             args == IF call # NoCall THEN call
                     ELSE [username |-> Head(queue).cmd.text,
                           password |-> Head(queue).cmd.text2]
         IN  /\ args = [username |-> SeededUsers[cur], password |-> "secret_sauce"]
             /\ Len(asserts) = 1
             /\ (asserts[1].cmd.op = "visibleContain") <=> (SeededUsers[cur] = "locked_out_user")
             /\ (asserts[1].cmd.op = "urlInclude") <=> (SeededUsers[cur] # "locked_out_user")
             /\ asserts[1].cmd.op = "visibleContain" =>
                  /\ asserts[1].cmd.sel = "h3[data-test=\"error\"]"
                  /\ asserts[1].cmd.text = "locked out"
             /\ asserts[1].cmd.op = "urlInclude" => asserts[1].cmd.text = "inventory"
             /\ asserts[1].src = "body"

\* the locked account's scenario has run its one assertion, the error indicator
C4_Witness ==
    /\ InBody /\ cur = 2 /\ queue = << >>
    /\ log[Len(log)].cmd.op = "visibleContain"

----------------------------------------------------------------------------
(* A scenario run alone: its hook, then its body, from a freshly launched   *)
(* browser, drained as the runner drains them                              *)

RECURSIVE Drain(_, _, _)
Drain(cmds, b, by) ==
    IF cmds = << >> THEN Ok(b)
    ELSE LET c == Head(cmds) IN
         IF c.op = "login"
           THEN Drain(LoginCommands(c.text, c.text2) \o Tail(cmds), b, by)
           ELSE LET r == Step(c, b, by) IN
                IF r.err # "none" THEN r ELSE Drain(Tail(cmds), r.b, by)

AloneOutcome(s) ==
    LET hook == Drain(HookCommands(SuiteOf(s)), FreshBrowser, s) IN
    IF hook.err # "none" THEN "failed"
    ELSE IF Drain(BodyCommands(s), hook.b, s).err # "none" THEN "failed"
    ELSE "passed"

Ended(s) == outcome[s] \in {"passed", "failed", "skipped"}

HookCleared ==
    \E i, j \in 1..Len(log) :
        /\ i < j
        /\ log[i] = [cmd |-> ClearAllCookies, src |-> "hook"]
        /\ log[j] = [cmd |-> ClearAllLocalStorage, src |-> "hook"]
        /\ \A k \in 1..Len(log) : log[k].src = "body" => j < k

NoForeignState == \A e \in browser.cookies \cup browser.storage : e.by = cur

NoClearIssued ==
    \A i \in 1..Len(log) : log[i].cmd.op \notin {"clearAllCookies", "clearAllLocalStorage"}

\* C6: in the body of every scenario of every suite, the setup has cleared
\* cookies and then local storage before any body command, and nothing in
\* cookies or local storage was written by another scenario.
C6_EverySetupClears ==
    InBody => HookCleared /\ NoForeignState

\* What the hooks do establish: the Login and Product setups clear, and their
\* bodies see no cookie or storage entry of another scenario; the Shopping
\* Cart setup issues no clearing command.
SetupClearsPerSuite ==
    InBody =>
        /\ SuiteOf(cur) \in {"login", "product"} => HookCleared /\ NoForeignState
        /\ SuiteOf(cur) = "cart" => NoClearIssued

\* C7: in the body of a Shopping Cart scenario, before the body has clicked
\* anything, the browser is on the cart view with exactly one cart line item;
\* once the body has clicked the item's remove control, the cart view has no
\* product-name element.
C7_CartOneItemThenNone ==
    (InBody /\ SuiteOf(cur) = "cart") =>
        /\ ~BodyClicked =>
             /\ browser.page = "cart"
             /\ Count(browser, ".cart_item") = 1
        /\ Clicked("#remove-sauce-labs-backpack", "body") =>
             /\ browser.page = "cart"
             /\ Count(browser, ".inventory_item_name") = 0

\* the remove scenario has clicked the remove control
C7_Witness ==
    /\ InTest("cart", 2)
    /\ Clicked("#remove-sauce-labs-backpack", "body")
    /\ Cart(browser) = {}

\* C8: the badge scenario of the Product suite never fails; in its body, before
\* the add-to-cart click the cart link shows no badge text and the add-to-cart
\* control of the backpack is there, and after the click the cart link's text
\* is exactly "1".
C8_BadgeBecomesOne ==
    /\ outcome[5] \in {"pending", "passed"}
    /\ InTest("product", 2) =>
         /\ ~BodyClicked =>
              /\ Text(browser, ".shopping_cart_link") = << "" >>
              /\ Count(browser, "#add-to-cart-sauce-labs-backpack") = 1
         /\ BodyClicked =>
              /\ Clicked("#add-to-cart-sauce-labs-backpack", "body")
              /\ Text(browser, ".shopping_cart_link") = << "1" >>

\* the badge scenario has clicked add-to-cart
C8_Witness ==
    /\ InTest("product", 2)
    /\ Clicked("#add-to-cart-sauce-labs-backpack", "body")
    /\ queue = << >>

\* C9: in the body of the checkout scenario, before its click the browser is
\* on the cart view holding one item, and once the body has clicked, the click
\* was on the checkout control and the location contains "checkout-step-one".
C9_CheckoutNavigates ==
    InTest("cart", 3) =>
        /\ ~BodyClicked =>
             /\ browser.page = "cart"
             /\ Cardinality(Cart(browser)) = 1
        /\ BodyClicked =>
             /\ Clicked("#checkout", "body")
             /\ Contains(Url(browser.page), "checkout-step-one")

\* the checkout scenario has clicked the checkout control
C9_Witness ==
    /\ InTest("cart", 3)
    /\ Clicked("#checkout", "body")
    /\ browser.page = "checkout-step-one"

\* C10: the listing scenario of the Product suite never fails; in its body the
\* browser is on the inventory page, logged in as standard_user, the product
\* container holds exactly 6 product items, and the body's only command is the
\* assertion that the items found inside the container number 6.
C10_SixProductsInContainer ==
    /\ outcome[4] \in {"pending", "passed"}
    /\ InTest("product", 1) =>
         /\ browser.page = "inventory"
         /\ \E c \in browser.cookies : c.value = "standard_user"
         /\ CountWithin(browser, ".inventory_list", ".inventory_item") = 6
         /\ Cmds(SelectSeq(log \o queue, IsBodyEntry)) =
              << [op |-> "findHaveLength", sel |-> ".inventory_list",
                  sub |-> ".inventory_item", text |-> "", text2 |-> "", n |-> 6] >>

\* the listing scenario has run its assertion
C10_Witness ==
    /\ InTest("product", 1)
    /\ queue = << >>
    /\ log[Len(log)].cmd.op = "findHaveLength"

----------------------------------------------------------------------------
(* Failures, and the run as a whole *)

RunOver == phase = "idle" /\ \A s \in selected : outcome[s] # "pending"

FullRun == selected = ScenarioIds

HookFailedBefore(t) ==
    \E f \in selected :
        /\ f < t /\ SuiteOf(f) = SuiteOf(t)
        /\ outcome[f] = "failed" /\ failedIn[f] = "hook"

SuiteSize(suite) == Cardinality({ s \in ScenarioIds : SuiteOf(s) = suite })

----------------------------------------------------------------------------
(* Uses of the login command *)

\* positions of a callback's statements that call the login command
Uses(cmds) == { i \in 1..Len(cmds) : cmds[i].op = "login" }

UsesInLoginTests ==
    UNION { { << i, j >> : j \in Uses(LoginTestBody(users[i])) } : i \in 1..Len(users) }

UsesInHook(suite) == Uses(HookCommands(suite))

UsesInTests(suite) ==
    UNION { { << s, j >> : j \in Uses(BodyCommands(s)) } :
              s \in { t \in ScenarioIds : SuiteOf(t) = suite } }

CallsBy(s) == SelectSeq(loginCalls, LAMBDA e : e.by = s)

----------------------------------------------------------------------------
(* Order of execution *)

SeededIndex(u) == CHOOSE i \in 1..3 : SeededUsers[i] = u

BodyCalls == SelectSeq(loginCalls, LAMBDA e : e.in = "body")

\* C14: the data-driven login scenarios run in the order of the username
\* array, standard_user, then locked_out_user, then problem_user: the
\* usernames logged in from their bodies appear in that order, each from the
\* scenario of its array position. They run one at a time: while a login
\* scenario runs, every selected scenario before it has ended, every one after
\* it is still pending and has called nothing, and between scenarios the
\* command queue is empty.
C14_LoginScenariosInArrayOrder ==
    /\ \A i \in 1..Len(BodyCalls) :
         /\ BodyCalls[i].username \in {"standard_user", "locked_out_user", "problem_user"}
         /\ BodyCalls[i].by = SeededIndex(BodyCalls[i].username)
    /\ \A i, j \in 1..Len(BodyCalls) :
         i < j => SeededIndex(BodyCalls[i].username) < SeededIndex(BodyCalls[j].username)
    /\ (phase # "idle" /\ cur \in 1..3) =>
         \A s \in selected :
            /\ s < cur => Ended(s)
            /\ s > cur => outcome[s] = "pending" /\ CallsBy(s) = << >>
    /\ phase = "idle" => queue = << >>

\* the third login scenario runs its body after the other two have ended
C14_Witness ==
    /\ InBody /\ cur = 3
    /\ Len(BodyCalls) = 3
    /\ BodyCalls[1].username = "standard_user"
    /\ BodyCalls[3].username = "problem_user"
    /\ Ended(1) /\ Ended(2)

----------------------------------------------------------------------------
(* The state a Shopping Cart body starts from *)

AtBodyStart == InBody /\ \A i \in 1..Len(log) : log[i].src # "body"

\* C15: whenever the body of a Shopping Cart scenario starts, the browser is
\* on the cart view and the cart holds exactly the one fixed product, the
\* backpack, whichever scenarios ran before it in the run and whatever they
\* left behind (an emptied cart, the checkout page).
C15_CartBodyStartsInCartWithBackpack ==
    (AtBodyStart /\ SuiteOf(cur) = "cart") =>
        /\ browser.page = "cart"
        /\ Cart(browser) = {"sauce-labs-backpack"}
        /\ Contains(Url(browser.page), "cart")

\* the checkout scenario's body starts, without runner isolation, after the
\* scenario that removed the item
C15_Witness ==
    /\ AtBodyStart /\ cur = 8
    /\ ~testIsolation
    /\ 7 \in selected /\ outcome[7] = "passed"

----------------------------------------------------------------------------
(* The login command against an application with one of its elements absent *)

LoginEntries == SelectSeq(log, LAMBDA e : e.src = "login")

\* how many of the login command's four commands run before the one that
\* addresses the selector
RunBefore(sel) ==
    CASE sel = "#user-name" -> 1
      [] sel = "#password" -> 2
      [] sel = "#login-button" -> 3

FourLoginCommands(username, password) ==
    << [op |-> "visit", sel |-> "", sub |-> "", text |-> "https://www.saucedemo.com/",
        text2 |-> "", n |-> 0],
       [op |-> "type", sel |-> "#user-name", sub |-> "", text |-> username,
        text2 |-> "", n |-> 0],
       [op |-> "type", sel |-> "#password", sub |-> "", text |-> password,
        text2 |-> "", n |-> 0],
       [op |-> "click", sel |-> "#login-button", sub |-> "", text |-> "",
        text2 |-> "", n |-> 0] >>

\* C16: when the application serves no element for one of the selectors the
\* login command addresses, no command on that selector is ever executed and
\* no scenario passes; a scenario that has failed has failed with element not
\* found, its last executed command is the login command's command just before
\* the one on the absent element, nothing is left queued, and it called the
\* login command once only (no retry, no recovery).
C16_AbsentElementFailsLogin ==
    \A sel \in absent :
       /\ sel \in {"#user-name", "#password", "#login-button"}
       /\ \A i \in 1..Len(log) : log[i].cmd.sel # sel
       /\ \A s \in ScenarioIds : outcome[s] # "passed" /\ Len(CallsBy(s)) <= 1
       /\ \A s \in ScenarioIds : outcome[s] = "failed" => failure[s] = "notfound"
       /\ (phase = "idle" /\ cur # 0 /\ outcome[cur] = "failed") =>
            /\ queue = << >>
            /\ Len(CallsBy(cur)) = 1
            /\ Cmds(LoginEntries) =
                 SubSeq(FourLoginCommands(call.username, call.password), 1, RunBefore(sel))
            /\ log[Len(log)].src = "login"

\* the locked user's scenario failed in its body at the absent password field
C16_Witness ==
    /\ absent = {"#password"}
    /\ cur = 2 /\ phase = "idle"
    /\ outcome[2] = "failed" /\ failure[2] = "notfound" /\ failedIn[2] = "body"
    /\ Len(LoginEntries) = 2

----------------------------------------------------------------------------
(* Order of the commands of a scenario *)

\* the commands in the order the callbacks issue them, the login command
\* replaced by its four commands at the point of the call
RECURSIVE InIssueOrder(_)
InIssueOrder(cmds) ==
    IF cmds = << >> THEN << >>
    ELSE ( IF Head(cmds).op = "login"
             THEN FourLoginCommands(Head(cmds).text, Head(cmds).text2)
             ELSE << Head(cmds) >> ) \o InIssueOrder(Tail(cmds))

IssuedByHook == InIssueOrder(HookCommands(SuiteOf(cur)))

IssuedByBody == InIssueOrder(BodyCommands(cur))

IsPrefix(a, b) == Len(a) <= Len(b) /\ a = SubSeq(b, 1, Len(a))

\* C17: in every scenario the commands executed so far, followed by those
\* still queued, are the hook's commands and then the body's commands in the
\* order they were issued, the login command's four standing together where it
\* was called; so every command of the hook is executed before the first of
\* the body, and a scenario that failed executed a prefix of that order.
C17_CommandsRunInIssueOrder ==
    /\ phase = "hook" =>
         /\ Cmds(log) \o InIssueOrder(Cmds(queue)) = IssuedByHook
         /\ \A i \in 1..Len(log) : log[i].src # "body"
    /\ phase = "body" =>
         /\ Cmds(log) \o InIssueOrder(Cmds(queue)) = IssuedByHook \o IssuedByBody
         /\ IsPrefix(IssuedByHook, Cmds(log))
         /\ \A i \in 1..Len(log) :
              (i <= Len(IssuedByHook)) <=> (log[i].src = "hook" \/
                                            (log[i].src = "login" /\ SuiteOf(cur) # "login"))
    /\ (phase = "idle" /\ cur # 0) => IsPrefix(Cmds(log), IssuedByHook \o IssuedByBody)

\* the remove scenario has run its hook (login inside) and both body commands
C17_Witness ==
    /\ InTest("cart", 2) /\ queue = << >>
    /\ Len(log) = 9
    /\ log[2].src = "login" /\ log[5].src = "login" /\ log[6].src = "hook"
    /\ log[8].src = "body"

----------------------------------------------------------------------------
(* Clearing and the login command's own navigation *)

LoginNavigated == \E i \in 1..Len(log) : log[i] = [cmd |-> Visit(BaseUrl), src |-> "login"]

\* C18: in the Login and Product suites, once the login command has navigated
\* to the application root, the log holds, in this order, the hook's
\* navigation, the clearing of cookies, the clearing of local storage and the
\* login command's navigation; and until the login button is clicked the
\* browser shows the login form with no cookie and nothing in local storage.
C18_ClearedBeforeLoginNavigates ==
    (phase \in {"hook", "body"} /\ SuiteOf(cur) \in {"login", "product"} /\ LoginNavigated) =>
        /\ \E h, c, l, v \in 1..Len(log) :
             /\ h < c /\ c < l /\ l < v
             /\ log[h] = [cmd |-> Visit(BaseUrl), src |-> "hook"]
             /\ log[c].cmd.op = "clearAllCookies"
             /\ log[l].cmd.op = "clearAllLocalStorage"
             /\ log[v] = [cmd |-> Visit(BaseUrl), src |-> "login"]
        /\ ~Clicked("#login-button", "login") =>
             /\ browser.page = "login"
             /\ browser.cookies = {}
             /\ browser.storage = {}

\* a Product hook, without runner isolation and after a scenario that logged
\* in, has typed the credentials into the login form
C18_Witness ==
    /\ phase = "hook" /\ cur = 5
    /\ ~testIsolation /\ outcome[4] = "passed"
    /\ Len(log) = 6
    /\ browser.userField = << "standard_user" >>
    /\ browser.passField = << "secret_sauce" >>

====
